---- MODULE Spec2Model ----
(***************************************************************************)
(* Model of post.py (komahanb/diffusion): the colour palette loop, the     *)
(* module-level script that loads and reshapes the solver output, and the  *)
(* five rendering routines.  The script is Python 2 (print statements).    *)
(*                                                                         *)
(* Floating-point data are abstracted to integers; a call of an analytical *)
(* function exact1/exact2 is kept symbolically as the function name and    *)
(* the arrays it was applied to.  numpy arrays are buffers seen through a  *)
(* shape and strides, indexed the way numpy indexes them (negative indices *)
(* are taken from the end, anything else out of range raises IndexError).  *)
(***************************************************************************)
EXTENDS Integers, Sequences, FiniteSets, TLC

VARIABLES
    pc,        \* index of the next module-level statement (0: the palette loop)
    i,         \* loop variable of the palette loop (line 14)
    colors,    \* the palette, 20 triples
    ints,      \* module-level integer names: nx, ny, tindex
    raw,       \* module-level record arrays returned by npl.Map
    dicts,     \* module-level dicts: exp_euler_new, ..., solutions
    loaded,    \* names of the files read so far
    exc,       \* the uncaught exception that ended the run, if any
    printed,   \* arrays written to stdout by the last routine
    figure,    \* curves drawn on the current figure
    files,     \* image files written
    last       \* the last rendering call: routine, arguments, outcome

vars == <<pc, i, colors, ints, raw, dicts, loaded, exc, printed,
          figure, files, last>>

----------------------------------------------------------------------------
(* Bounds of the model.  NX and NY stand for the script's nx = 500 and     *)
(* ny = 3001; the snapshot indices are scaled with them.                   *)

NX == 2
NY == 3

NumColors == 20
Denominator == 255

----------------------------------------------------------------------------
(* The palette, lines 6-16.  A component is kept as an exact fraction.     *)

Frac(n, d) == [num |-> n, den |-> d]

Colors20 ==
    << <<31, 119, 180>>, <<174, 199, 232>>, <<255, 127, 14>>, <<255, 187, 120>>,
       <<44, 160, 44>>, <<152, 223, 138>>, <<214, 39, 40>>, <<255, 152, 150>>,
       <<148, 103, 189>>, <<197, 176, 213>>, <<140, 86, 75>>, <<196, 156, 148>>,
       <<227, 119, 194>>, <<247, 182, 210>>, <<127, 127, 127>>, <<199, 199, 199>>,
       <<188, 189, 34>>, <<219, 219, 141>>, <<23, 190, 207>>, <<158, 218, 229>> >>

RawColors ==
    [k \in 1..NumColors |-> [c \in 1..3 |-> Frac(Colors20[k][c], 1)]]

\* A scaling that forgets the division: the component stays in 0..255.
ScaleKeep(c) == c

\* r / 255.
Scale(c) == Frac(c.num, c.den * Denominator)

ScaleTriple(t) == [c \in 1..3 |-> Scale(t[c])]

ScaledColors == [k \in 1..NumColors |-> ScaleTriple(RawColors[k])]

----------------------------------------------------------------------------
(* numpy arrays: a flat buffer seen through a shape and strides.           *)

NoView == [base |-> <<>>, shape |-> <<0, 0>>, strides |-> <<0, 0>>]

\* Column-major strides: what order='F' would give.
FStrides(shape) == <<1, shape[1]>>

\* Row-major (C order) strides of a contiguous array, numpy's default.
CStrides(shape) == <<shape[2], 1>>

\* A reshape that cuts or cyclically repeats the data to fit (np.resize).
resize(a, shape) ==
    [ok |-> Len(a) > 0,
     v  |-> [base    |-> [p \in 1..(shape[1] * shape[2]) |->
                             a[((p - 1) % (IF Len(a) > 0 THEN Len(a) ELSE 1)) + 1]],
             shape   |-> shape,
             strides |-> CStrides(shape)]]

\* a.reshape((nx, ny)): ValueError unless the sizes agree.
reshape(a, shape) ==
    IF Len(a) = shape[1] * shape[2]
    THEN [ok |-> TRUE,
          v  |-> [base |-> a, shape |-> shape, strides |-> CStrides(shape)]]
    ELSE [ok |-> FALSE, v |-> NoView]

\* numpy's index adjustment: a negative index counts from the end.
NormIndex(k, n) == IF k < 0 THEN k + n ELSE k

\* The index is accepted (otherwise IndexError).
IndexOk(k, n) == NormIndex(k, n) >= 0 /\ NormIndex(k, n) < n

\* v[r, c]
At(v, r, c) ==
    v.base[1 + NormIndex(r, v.shape[1]) * v.strides[1]
             + NormIndex(c, v.shape[2]) * v.strides[2]]

\* v[r, :]
RowOf(v, r) ==
    [j \in 1..v.shape[2] |->
        v.base[1 + NormIndex(r, v.shape[1]) * v.strides[1] + (j - 1) * v.strides[2]]]

\* A column slice that is one column off (a 1-based index used as 0-based).
ColOfNext(v, c) ==
    [k \in 1..v.shape[1] |->
        v.base[1 + (k - 1) * v.strides[1]
                 + ((NormIndex(c, v.shape[2]) + 1) % v.shape[2]) * v.strides[2]]]

\* v[:, c]
ColOf(v, c) ==
    [k \in 1..v.shape[1] |->
        v.base[1 + (k - 1) * v.strides[1] + NormIndex(c, v.shape[2]) * v.strides[2]]]

----------------------------------------------------------------------------
(* Python values and exceptions used by the rendering routines.            *)

Fields == {"time", "x", "state"}

NoExc == [type |-> "none", line |-> 0]
Exc(t, l) == [type |-> t, line |-> l]

\* The xval argument: a list, a tuple or a float.
PyList(items)  == [kind |-> "list",  items |-> items]
PyTuple(items) == [kind |-> "tuple", items |-> items]
PyFloat(v)     == [kind |-> "float", items |-> <<v>>]

\* xval[k]: a float has no items; a list or tuple checks the index.
Subscriptable(v) == v.kind \in {"list", "tuple"}

\* 'x=%2gs' % (xval): a tuple supplies the arguments, one is needed; any
\* other value is the single argument and has to be a number.
FormatOk(v) ==
    \/ v.kind = "float"
    \/ v.kind = "tuple" /\ Len(v.items) = 1

\* exact(x, t): kept as the function's name and its two array arguments
\* (a scalar is an array of one element).
NoEx == [fn |-> "none", xs |-> <<>>, ts |-> <<>>]
Apply(fn, xs, ts) == [fn |-> fn, xs |-> xs, ts |-> ts]

\* One plt.plot / plt.loglog call.
Curve(x, y, ex, color, label) ==
    [x |-> x, y |-> y, ex |-> ex, color |-> color, label |-> label]

\* What a routine did: the exception it raised (or none), what it printed,
\* the curves it drew, whether it saved the figure, and the data object it
\* was given as it is after the call.
Result(e, pr, cv, sv, d) ==
    [exc |-> e, printed |-> pr, curves |-> cv, saved |-> sv, data |-> d]

\* Names bound at module level: imports, the palette and its loop
\* variables, the functions, and whatever the script has assigned so far.
StaticNames ==
    {"plt", "axes3d", "npl", "np", "colors", "i", "r", "g", "b", "initcond",
     "exact1", "exact2", "plot_space_snaps", "plot_time_snaps",
     "plot_solution", "plot_history", "plot_time"}

Bound == StaticNames \cup DOMAIN ints \cup DOMAIN raw \cup DOMAIN dicts

----------------------------------------------------------------------------
(* plot_space_snaps, lines 27-69.                                          *)

plot_space_snaps(data, sindices, xval, exact, name) ==
    LET nrow  == data["time"].shape[1]
        time0 == RowOf(data["time"], sindices[1])
        time1 == RowOf(data["time"], sindices[2])
        pr    == <<time0, time1>>
        c1 == Curve(time0, <<>>, Apply(exact, <<xval.items[1]>>, time0),
                    colors[7], <<>>)
        c2 == Curve(time0, RowOf(data["state"], sindices[1]), NoEx,
                    colors[8], xval.items)
        c3 == Curve(time1, <<>>, Apply(exact, <<xval.items[2]>>, time1),
                    colors[9], <<>>)
        c4 == Curve(time1, RowOf(data["state"], sindices[2]), NoEx,
                    colors[10], xval.items)
    IN  IF ~IndexOk(sindices[1], nrow)
        THEN Result(Exc("IndexError", 47), <<>>, <<>>, FALSE, data)
        ELSE IF ~IndexOk(sindices[2], nrow)
        THEN Result(Exc("IndexError", 48), <<>>, <<>>, FALSE, data)
        ELSE IF ~Subscriptable(xval)
        THEN Result(Exc("TypeError", 57), pr, <<>>, FALSE, data)
        ELSE IF ~IndexOk(0, Len(xval.items))
        THEN Result(Exc("IndexError", 57), pr, <<>>, FALSE, data)
        ELSE IF ~IndexOk(sindices[1], data["state"].shape[1])
        THEN Result(Exc("IndexError", 58), pr, <<c1>>, FALSE, data)
        ELSE IF ~FormatOk(xval)
        THEN Result(Exc("TypeError", 58), pr, <<c1>>, FALSE, data)
        ELSE IF ~IndexOk(1, Len(xval.items))
        THEN Result(Exc("IndexError", 60), pr, <<c1, c2>>, FALSE, data)
        ELSE IF ~IndexOk(sindices[2], data["state"].shape[1])
        THEN Result(Exc("IndexError", 61), pr, <<c1, c2, c3>>, FALSE, data)
        ELSE Result(NoExc, pr, <<c1, c2, c3, c4>>, TRUE, data)

----------------------------------------------------------------------------
(* plot_time_snaps, lines 71-113.                                          *)

\* A variant that recentres the x grid in place (data['x'] -= 5.0) before
\* drawing, so that the caller's arrays change.
plot_time_snaps_inplace(data, tindices, exact, name) ==
    LET shifted == [data EXCEPT !["x"].base = [p \in DOMAIN @ |-> @[p] - 5]]
        nrow == data["time"].shape[1]
        ncol == data["time"].shape[2]
        x == ColOf(data["x"], 1)
        t(k) == At(data["time"], 1, tindices[k])
        an(k, col) == Curve(x, <<>>, Apply(exact, x, <<t(k)>>), colors[col], <<>>)
        nu(k, col) == Curve(x, ColOf(data["state"], tindices[k]), NoEx,
                            colors[col], <<t(k)>>)
        bad(k) == ~IndexOk(1, nrow) \/ ~IndexOk(tindices[k], ncol)
    IN  IF ~IndexOk(1, data["x"].shape[2])
        THEN Result(Exc("IndexError", 88), <<>>, <<>>, FALSE, data)
        ELSE IF bad(1)
        THEN Result(Exc("IndexError", 90), <<>>, <<>>, FALSE, data)
        ELSE IF bad(2)
        THEN Result(Exc("IndexError", 91), <<>>, <<>>, FALSE, data)
        ELSE IF bad(3)
        THEN Result(Exc("IndexError", 92), <<>>, <<>>, FALSE, data)
        ELSE Result(NoExc, <<>>,
                    <<an(1, 1), nu(1, 2), an(2, 3), nu(2, 4), an(3, 5), nu(3, 6)>>,
                    TRUE, shifted)

plot_time_snaps(data, tindices, exact, name) ==
    LET nrow == data["time"].shape[1]
        ncol == data["time"].shape[2]
        x == ColOf(data["x"], 1)
        t(k) == At(data["time"], 1, tindices[k])
        an(k, col) == Curve(x, <<>>, Apply(exact, x, <<t(k)>>), colors[col], <<>>)
        nu(k, col) == Curve(x, ColOf(data["state"], tindices[k]), NoEx,
                            colors[col], <<t(k)>>)
        bad(k) == ~IndexOk(1, nrow) \/ ~IndexOk(tindices[k], ncol)
    IN  IF ~IndexOk(1, data["x"].shape[2])
        THEN Result(Exc("IndexError", 88), <<>>, <<>>, FALSE, data)
        ELSE IF bad(1)
        THEN Result(Exc("IndexError", 90), <<>>, <<>>, FALSE, data)
        ELSE IF bad(2)
        THEN Result(Exc("IndexError", 91), <<>>, <<>>, FALSE, data)
        ELSE IF bad(3)
        THEN Result(Exc("IndexError", 92), <<>>, <<>>, FALSE, data)
        ELSE Result(NoExc, <<>>,
                    <<an(1, 1), nu(1, 2), an(2, 3), nu(2, 4), an(3, 5), nu(3, 6)>>,
                    TRUE, data)

----------------------------------------------------------------------------
(* plot_solution, lines 115-152.  Line 136 reads the module-level name     *)
(* exp_euler_new, not the parameter.                                       *)

Black == [c \in 1..3 |-> Frac(0, 1)]

plot_solution(sets, tindex, exact, name) ==
    LET exp_euler == sets["exp_euler"]
        imp_euler == sets["imp_euler"]
        cni       == sets["cni"]
        x    == ColOf(exp_euler["x"], tindex)
        glob == dicts["exp_euler_new"]
        time == At(glob["time"], 1, tindex)
        c0 == Curve(x, <<>>, Apply(exact, x, <<time>>), Black, <<>>)
        nu(d, col) == Curve(ColOf(d["x"], tindex), ColOf(d["state"], tindex),
                            NoEx, colors[col], <<>>)
        colok(d) == /\ IndexOk(tindex, d["x"].shape[2])
                    /\ IndexOk(tindex, d["state"].shape[2])
    IN  IF "exp_euler" \notin DOMAIN sets
        THEN Result(Exc("KeyError", 119), <<>>, <<>>, FALSE, sets)
        ELSE IF "imp_euler" \notin DOMAIN sets
        THEN Result(Exc("KeyError", 120), <<>>, <<>>, FALSE, sets)
        ELSE IF "cni" \notin DOMAIN sets
        THEN Result(Exc("KeyError", 121), <<>>, <<>>, FALSE, sets)
        ELSE IF ~IndexOk(tindex, exp_euler["x"].shape[2])
        THEN Result(Exc("IndexError", 135), <<>>, <<>>, FALSE, sets)
        ELSE IF "exp_euler_new" \notin Bound
        THEN Result(Exc("NameError", 136), <<>>, <<>>, FALSE, sets)
        ELSE IF "time" \notin DOMAIN glob
        THEN Result(Exc("KeyError", 136), <<>>, <<>>, FALSE, sets)
        ELSE IF ~IndexOk(1, glob["time"].shape[1])
                \/ ~IndexOk(tindex, glob["time"].shape[2])
        THEN Result(Exc("IndexError", 136), <<>>, <<>>, FALSE, sets)
        ELSE IF ~colok(exp_euler)
        THEN Result(Exc("IndexError", 142), <<>>, <<c0>>, FALSE, sets)
        ELSE IF ~colok(imp_euler)
        THEN Result(Exc("IndexError", 143), <<>>, <<c0, nu(exp_euler, 1)>>,
                    FALSE, sets)
        ELSE IF ~colok(cni)
        THEN Result(Exc("IndexError", 144), <<>>,
                    <<c0, nu(exp_euler, 1), nu(imp_euler, 3)>>, FALSE, sets)
        ELSE Result(NoExc, <<>>,
                    <<c0, nu(exp_euler, 1), nu(imp_euler, 3), nu(cni, 5)>>,
                    TRUE, sets)

----------------------------------------------------------------------------
(* plot_history, lines 154-181, and plot_time, lines 183-206.  plot_time   *)
(* never reads its summary: it reads the module-level names jacobi,        *)
(* seidel and sor.                                                         *)

Solvers == <<"jacobi", "seidel", "sor">>

plot_history(summary, name) ==
    LET cv(k) == Curve(summary[Solvers[k]]["iteration"],
                       summary[Solvers[k]]["residual"], NoEx,
                       colors[2 * k - 1], <<>>)
    IN  IF "jacobi" \notin DOMAIN summary
        THEN Result(Exc("KeyError", 158), <<>>, <<>>, FALSE, summary)
        ELSE IF "seidel" \notin DOMAIN summary
        THEN Result(Exc("KeyError", 159), <<>>, <<>>, FALSE, summary)
        ELSE IF "sor" \notin DOMAIN summary
        THEN Result(Exc("KeyError", 160), <<>>, <<>>, FALSE, summary)
        ELSE Result(NoExc, <<>>, <<cv(1), cv(2), cv(3)>>, TRUE, summary)

plot_time(summary, name) ==
    LET cv(k) == Curve(raw[Solvers[k]]["npts"], raw[Solvers[k]]["wall_time"],
                       NoEx, colors[2 * k - 1], <<>>)
    IN  IF "jacobi" \notin Bound
        THEN Result(Exc("NameError", 196), <<>>, <<>>, FALSE, summary)
        ELSE IF "seidel" \notin Bound
        THEN Result(Exc("NameError", 197), <<>>, <<cv(1)>>, FALSE, summary)
        ELSE IF "sor" \notin Bound
        THEN Result(Exc("NameError", 198), <<>>, <<cv(1), cv(2)>>, FALSE, summary)
        ELSE Result(NoExc, <<>>, <<cv(1), cv(2), cv(3)>>, TRUE, summary)

----------------------------------------------------------------------------
(* The module-level script, lines 216-302, as a table of statements.       *)

Stmt(line, kind, target, key, src) ==
    [line |-> line, kind |-> kind, target |-> target, key |-> key, src |-> src]

\* name = npl.Map(file); name_new = {}; name_new[f] = name[f].reshape((nx, ny))
LoadBlock(l, name, file) ==
    << Stmt(l, "load", name, "", file),
       Stmt(l + 1, "newdict", name \o "_new", "", ""),
       Stmt(l + 2, "reshape", name \o "_new", "time", name),
       Stmt(l + 3, "reshape", name \o "_new", "x", name),
       Stmt(l + 4, "reshape", name \o "_new", "state", name) >>

\* solutions = {}; solutions[k] = k_new
SolutionsBlock(l) ==
    << Stmt(l, "newdict", "solutions", "", ""),
       Stmt(l + 1, "ref", "solutions", "exp_euler", "exp_euler_new"),
       Stmt(l + 2, "ref", "solutions", "imp_euler", "imp_euler_new"),
       Stmt(l + 3, "ref", "solutions", "cni", "cni_new") >>

Program ==
    << Stmt(216, "assign", "nx", "", ""),
       Stmt(217, "assign", "ny", "", ""),
       Stmt(218, "assign", "tindex", "", "") >>
    \o LoadBlock(220, "exp_euler", "case1-transport-explicit-euler.dat")
    \o << Stmt(226, "call", "case1-spacesnap-expeuler.pdf", "", "exp_euler_new"),
          Stmt(228, "name", "stop", "", "") >>
    \o LoadBlock(243, "imp_euler", "case1-transport-implicit-euler.dat")
    \o LoadBlock(249, "cni", "case1-transport-cni.dat")
    \o SolutionsBlock(255)
    \o << Stmt(268, "call", "case1-spacesnap-impeuler.pdf", "", "imp_euler_new"),
          Stmt(269, "call", "case1-spacesnap-cni.pdf", "", "cni_new"),
          Stmt(271, "name", "stop", "", "") >>
    \o LoadBlock(274, "exp_euler", "case2-transport-explicit-euler.dat")
    \o LoadBlock(280, "imp_euler", "case2-transport-implicit-euler.dat")
    \o LoadBlock(286, "cni", "case2-transport-cni.dat")
    \o SolutionsBlock(292)
    \o << Stmt(302, "name", "stop", "", "") >>

\* The value an assignment statement of lines 216-218 gives its target.
AssignedValue(name) ==
    IF name = "nx" THEN NX ELSE IF name = "ny" THEN NY ELSE 0

\* The arguments of the script's plot_space_snaps calls: [125, 250] are the
\* rows nx/4 and nx/2, [15.0, 25.0] their x values.
SIdx == <<NX \div 4, NX \div 2>>
XVal == PyList(<<15, 25>>)

----------------------------------------------------------------------------
(* What npl.Map can return: a record of flat arrays time, x, state whose   *)
(* lengths the script does not control.                                    *)

Lin(n, a, b) == [p \in 1..n |-> a * (p - 1) + b]

Patterns == {<<0, 1>>, <<1, 0>>, <<2, 5>>}

Lengths == {NX * NY - 1, NX * NY, NX * NY + 1}

FlatArrays == {Lin(n, p[1], p[2]) : n \in Lengths, p \in Patterns}

FileContents == [Fields -> FlatArrays]

----------------------------------------------------------------------------
(* The record of a rendering call.                                         *)

Args(data, idx, xval, exact, name) ==
    [data |-> data, idx |-> idx, xval |-> xval, exact |-> exact, name |-> name]

Call(routine, args, R) ==
    [routine |-> routine, args |-> args, exc |-> R.exc, saved |-> R.saved,
     after |-> R.data]

NoCall == [routine |-> "none", args |-> <<>>, exc |-> NoExc, saved |-> FALSE,
           after |-> <<>>]

\* The effect of a call on stdout, the figure, the files and the record.
Effects(routine, args, R) ==
    /\ printed' = R.printed
    /\ figure'  = R.curves
    /\ files'   = IF R.saved THEN files \cup {args.name} ELSE files
    /\ last'    = Call(routine, args, R)

----------------------------------------------------------------------------
(* The script run.                                                         *)

Init ==
    /\ pc = 0
    /\ i = 0
    /\ colors = RawColors
    /\ ints = <<>>
    /\ raw = <<>>
    /\ dicts = <<>>
    /\ loaded = {}
    /\ exc = NoExc
    /\ printed = <<>>
    /\ figure = <<>>
    /\ files = {}
    /\ last = NoCall

Running == exc = NoExc /\ pc \in 1..Len(Program)

\* An uncaught exception at module level ends the run at that statement.
Raise(e) == exc' = e /\ pc' = pc

\* Lines 14-16: for i in range(len(colors)): colors[i] = (r/255., ...)
PaletteLoop ==
    /\ pc = 0 /\ exc = NoExc
    /\ i < Len(colors)
    /\ colors' = [colors EXCEPT ![i + 1] = ScaleTriple(@)]
    /\ i' = i + 1
    /\ pc' = IF i + 1 = Len(colors) THEN 1 ELSE 0
    /\ UNCHANGED <<ints, raw, dicts, loaded, exc, printed, figure,
                   files, last>>

\* Lines 216-218: nx = 500, ny = 3001, tindex = 0.
Assign ==
    /\ Running /\ Program[pc].kind = "assign"
    /\ ints' = (Program[pc].target :> AssignedValue(Program[pc].target)) @@ ints
    /\ pc' = pc + 1
    /\ UNCHANGED <<i, colors, raw, dicts, loaded, exc, printed, figure,
                   files, last>>

\* name = npl.Map(file): the file's arrays, or IOError when it is missing.
Load ==
    /\ Running /\ Program[pc].kind = "load"
    /\ \E found \in BOOLEAN, c \in FileContents :
          IF found
          THEN /\ raw' = (Program[pc].target :> c) @@ raw
               /\ loaded' = loaded \cup {Program[pc].src}
               /\ pc' = pc + 1
               /\ exc' = exc
          ELSE /\ Raise(Exc("IOError", Program[pc].line))
               /\ UNCHANGED <<raw, loaded>>
    /\ UNCHANGED <<i, colors, ints, dicts, printed, figure, files, last>>

\* name = {}
NewDict ==
    /\ Running /\ Program[pc].kind = "newdict"
    /\ dicts' = (Program[pc].target :> <<>>) @@ dicts
    /\ pc' = pc + 1
    /\ UNCHANGED <<i, colors, ints, raw, loaded, exc, printed, figure,
                   files, last>>

\* target[key] = src[key].reshape((nx, ny))   or   target[key] = src
SetItem ==
    /\ Running /\ Program[pc].kind \in {"reshape", "ref"}
    /\ LET s == Program[pc]
           r == reshape(raw[s.src][s.key], <<ints["nx"], ints["ny"]>>)
       IN  IF s.kind = "ref"
           THEN /\ dicts' = [dicts EXCEPT ![s.target] = (s.key :> dicts[s.src]) @@ @]
                /\ pc' = pc + 1
                /\ exc' = exc
           ELSE IF r.ok
           THEN /\ dicts' = [dicts EXCEPT ![s.target] = (s.key :> r.v) @@ @]
                /\ pc' = pc + 1
                /\ exc' = exc
           ELSE /\ Raise(Exc("ValueError", s.line))
                /\ UNCHANGED dicts
    /\ UNCHANGED <<i, colors, ints, raw, loaded, printed, figure, files,
                   last>>

\* An expression statement: a plot_space_snaps call (lines 226, 268, 269)
\* or a bare name (lines 228, 271, 302).
ExprStmt ==
    /\ Running /\ Program[pc].kind \in {"call", "name"}
    /\ LET s == Program[pc]
           a == Args(dicts[s.src], SIdx, XVal, "exact1", s.target)
           R == plot_space_snaps(a.data, a.idx, a.xval, a.exact, a.name)
       IN  IF s.kind = "name"
           THEN /\ IF s.target \in Bound
                   THEN pc' = pc + 1 /\ exc' = exc
                   ELSE Raise(Exc("NameError", s.line))
                /\ UNCHANGED <<dicts, printed, figure, files, last>>
           ELSE /\ Effects("plot_space_snaps", a, R)
                /\ dicts' = [dicts EXCEPT ![s.src] = R.data]
                /\ IF R.exc = NoExc
                   THEN pc' = pc + 1 /\ exc' = exc
                   ELSE Raise(R.exc)
    /\ UNCHANGED <<i, colors, ints, raw, loaded>>

Next == PaletteLoop \/ Assign \/ Load \/ NewDict \/ SetItem \/ ExprStmt

Spec == Init /\ [][Next]_vars

----------------------------------------------------------------------------
(* The rendering routines called one after another with arguments of the   *)
(* caller's choice, on data sets built by the script's reshape.            *)

PatternSeq == << <<0, 1>>, <<1, 0>>, <<2, 5>> >>

Pat(k) == PatternSeq[((k - 1) % 3) + 1]

Grid(k) == reshape(Lin(NX * NY, Pat(k)[1], Pat(k)[2]), <<NX, NY>>).v

DataSet(k) ==
    [f \in Fields |-> IF f = "time" THEN Grid(k)
                      ELSE IF f = "x" THEN Grid(k + 1) ELSE Grid(k + 2)]

DataSetIds == 1..3

DataNames == {"exp_euler_new", "imp_euler_new", "cni_new"}

\* The data sets the calls are made on.
CallNames == {"exp_euler_new", "cni_new"}

Summary(k) ==
    [m \in {"jacobi", "seidel", "sor"} |->
        [iteration |-> <<1, 2>>, residual |-> <<k + 1, k>>,
         npts |-> <<10, 20>>, wall_time |-> <<k, 2 * k>>]]

Summaries == {Summary(1), Summary(2)}

RowIdx == {0 - NX - 1, 0 - 1, 0, NX - 1, NX}
ColIdx == {0 - NY - 1, 0 - 1, 0, NY - 1, NY}

SIndices == {<<a, b>> : a \in RowIdx, b \in {0 - 1, NX - 1, NX}}
TIndices == {<<a, b, 1>> : a \in ColIdx, b \in {0, NY - 1}}

XVals == {PyList(<<15, 25>>), PyTuple(<<15>>), PyFloat(15)}

ExactFns == {"exact1", "exact2"}

OutName == "out.pdf"

InitCalls ==
    /\ pc = 0 - 1
    /\ i = NumColors
    /\ colors = ScaledColors
    /\ ints = [n \in {"nx", "ny", "tindex"} |-> AssignedValue(n)]
    /\ raw = <<>>
    /\ \E k \in DataSetIds :
          dicts = [n \in DataNames \cup {"solutions"} |->
                     IF n = "exp_euler_new" THEN DataSet(k)
                     ELSE IF n = "imp_euler_new" THEN DataSet(2)
                     ELSE IF n = "cni_new" THEN DataSet(3)
                     ELSE [s \in {"exp_euler", "imp_euler", "cni"} |->
                             IF s = "exp_euler" THEN DataSet(k)
                             ELSE IF s = "imp_euler" THEN DataSet(2)
                             ELSE DataSet(3)]]
    /\ loaded = {}
    /\ exc = NoExc
    /\ printed = <<>>
    /\ figure = <<>>
    /\ files = {}
    /\ last = NoCall

Session == pc = 0 - 1

CallSpaceSnaps ==
    /\ Session
    /\ \E d \in CallNames, si \in SIndices, xv \in XVals :
          LET a == Args(dicts[d], si, xv, "exact1", OutName)
              R == plot_space_snaps(a.data, a.idx, a.xval, a.exact, a.name)
          IN  /\ Effects("plot_space_snaps", a, R)
              /\ dicts' = [dicts EXCEPT ![d] = R.data]
    /\ UNCHANGED <<pc, i, colors, ints, raw, loaded, exc>>

CallTimeSnaps ==
    /\ Session
    /\ \E d \in CallNames, ti \in TIndices, ex \in ExactFns :
          LET a == Args(dicts[d], ti, PyFloat(0), ex, OutName)
              R == plot_time_snaps(a.data, a.idx, a.exact, a.name)
          IN  /\ Effects("plot_time_snaps", a, R)
              /\ dicts' = [dicts EXCEPT ![d] = R.data]
    /\ UNCHANGED <<pc, i, colors, ints, raw, loaded, exc>>

CallSolution ==
    /\ Session
    /\ \E t \in ColIdx, ex \in ExactFns :
          LET a == Args(dicts["solutions"], <<t>>, PyFloat(0), ex, OutName)
              R == plot_solution(a.data, a.idx[1], a.exact, a.name)
          IN  /\ Effects("plot_solution", a, R)
              /\ dicts' = [dicts EXCEPT !["solutions"] = R.data]
    /\ UNCHANGED <<pc, i, colors, ints, raw, loaded, exc>>

CallHistory ==
    /\ Session
    /\ \E sm \in Summaries :
          LET a == Args(sm, <<>>, PyFloat(0), "none", OutName)
              R == plot_history(a.data, a.name)
          IN  Effects("plot_history", a, R)
    /\ UNCHANGED <<pc, i, colors, ints, raw, dicts, loaded, exc>>

CallTime ==
    /\ Session
    /\ \E sm \in Summaries :
          LET a == Args(sm, <<>>, PyFloat(0), "none", OutName)
              R == plot_time(a.data, a.name)
          IN  Effects("plot_time", a, R)
    /\ UNCHANGED <<pc, i, colors, ints, raw, dicts, loaded, exc>>

\* exp_euler_new = {...}: the module-level name is bound to another data
\* set, as lines 275-278 do for case 2.
Rebind ==
    /\ Session
    /\ \E k \in DataSetIds : dicts' = [dicts EXCEPT !["exp_euler_new"] = DataSet(k)]
    /\ UNCHANGED <<pc, i, colors, ints, raw, loaded, exc, printed, figure,
                   files, last>>

NextCalls ==
    \/ CallSpaceSnaps \/ CallTimeSnaps \/ CallSolution \/ CallHistory
    \/ CallTime \/ Rebind

SpecCalls == InitCalls /\ [][NextCalls]_vars

----------------------------------------------------------------------------
(* Claims.                                                                 *)

\* Data of a call's argument: the flat buffer behind a field of the grid.
FlatOf(d, f) == d[f].base

\* An index that lies in 0 .. n-1.
InRange(k, n) == k >= 0 /\ k < n

\* The first load block's reshape statements, and the statements that follow.
FirstReshapeOf(f) ==
    CHOOSE q \in 1..Len(Program) :
        /\ Program[q].kind = "reshape" /\ Program[q].key = f
        /\ \A p \in 1..(q - 1) : ~(Program[p].kind = "reshape" /\ Program[p].key = f)

FirstCall == CHOOSE q \in 1..Len(Program) :
                /\ Program[q].kind = "call"
                /\ \A p \in 1..(q - 1) : Program[p].kind # "call"

\* The fields of the loaded explicit-Euler record whose length is not nx*ny.
Mismatched ==
    IF "exp_euler" \in DOMAIN raw /\ {"nx", "ny"} \subseteq DOMAIN ints
    THEN {f \in Fields : Len(raw["exp_euler"][f]) # ints["nx"] * ints["ny"]}
    ELSE {}

\* C1: a snapshot index outside [0, nx) (rows) or [0, ny) (columns), a
\* negative one included, makes the rendering call fail with a bounds
\* error before anything is extracted, printed, drawn or saved.
C1_BoundsChecked ==
    /\ last.routine = "plot_space_snaps"
         /\ (\E k \in 1..2 : ~InRange(last.args.idx[k], NX))
       => /\ last.exc.type = "IndexError"
          /\ printed = <<>> /\ figure = <<>> /\ ~last.saved
    /\ last.routine = "plot_time_snaps"
         /\ (\E k \in 1..3 : ~InRange(last.args.idx[k], NY))
       => /\ last.exc.type = "IndexError"
          /\ printed = <<>> /\ figure = <<>> /\ ~last.saved
    /\ last.routine = "plot_solution" /\ ~InRange(last.args.idx[1], NY)
       => /\ last.exc.type = "IndexError"
          /\ printed = <<>> /\ figure = <<>> /\ ~last.saved

\* C2: when a loaded field's length differs from nx*ny, the run stops at
\* that field's reshape with ValueError: no grid is built from the field,
\* control never passes the statement, no rendering routine is entered and
\* no image is written.
C2_MismatchAborts ==
    Mismatched # {} =>
        /\ \A f \in Mismatched : pc <= FirstReshapeOf(f)
        /\ "exp_euler_new" \in DOMAIN dicts
              => DOMAIN dicts["exp_euler_new"] \cap Mismatched = {}
        /\ last = NoCall /\ figure = <<>> /\ files = {}
        /\ exc.type \in {"none", "ValueError"}

C2_Witness ==
    /\ Mismatched = {"state"}
    /\ exc = Exc("ValueError", 224)
    /\ DOMAIN dicts["exp_euler_new"] = {"time", "x"}

\* C3: the script's plot_space_snaps call (in-range rows, a list of two x
\* values) draws its four curves, saves the image under the given name and
\* returns normally.
C3_CallSaves ==
    last.routine = "plot_space_snaps" =>
        /\ last.exc = NoExc
        /\ Len(figure) = 4
        /\ last.args.name \in files

\* C4: two calls of the same routine with equal arguments draw the same
\* curves and end the same way, whatever the module-level names are bound
\* to at the time of each call.
C4_Independent ==
    [][(/\ last.routine # "none"
        /\ last'.routine = last.routine
        /\ last'.args = last.args)
       => (figure' = figure /\ last'.exc = last.exc)]_vars

\* C5: every grid the script builds has shape (nx, ny) and is row-major:
\* element (r, c) is the flat element at index r*ny + c, for time, x, state.
C5_RowMajor ==
    ("exp_euler_new" \in DOMAIN dicts /\ "exp_euler" \in DOMAIN raw) =>
        \A f \in DOMAIN dicts["exp_euler_new"] :
            LET g == dicts["exp_euler_new"][f]
            IN  /\ g.shape = <<ints["nx"], ints["ny"]>>
                /\ \A r \in 0..(ints["nx"] - 1), c \in 0..(ints["ny"] - 1) :
                      At(g, r, c) = raw["exp_euler"][f][r * ints["ny"] + c + 1]

C5_Witness ==
    /\ "exp_euler_new" \in DOMAIN dicts
    /\ DOMAIN dicts["exp_euler_new"] = Fields
    /\ raw["exp_euler"]["state"] = Lin(NX * NY, 1, 0)
    /\ raw["exp_euler"]["time"] = Lin(NX * NY, 2, 5)

\* C6: a row snapshot (plot_space_snaps) is exactly the ny elements of
\* that grid row, a column snapshot (plot_time_snaps) exactly the nx
\* elements of that grid column; on an all-ones grid every snapshot is all
\* ones.
RowIs(s, flat, r) ==
    /\ Len(s) = NY
    /\ \A c \in 0..(NY - 1) : s[c + 1] = flat[r * NY + c + 1]

ColIs(s, flat, c) ==
    /\ Len(s) = NX
    /\ \A r \in 0..(NX - 1) : s[r + 1] = flat[r * NY + c + 1]

AllOnes(flat) == \A p \in DOMAIN flat : flat[p] = 1

C6_Snapshots ==
    /\ (last.routine = "plot_space_snaps" /\ printed # <<>>) =>
          \A k \in 1..2 :
             InRange(last.args.idx[k], NX) =>
                /\ RowIs(printed[k], FlatOf(last.args.data, "time"), last.args.idx[k])
                /\ (Len(figure) >= 2 * k - 1) =>
                      RowIs(figure[2 * k - 1].x, FlatOf(last.args.data, "time"),
                            last.args.idx[k])
                /\ (Len(figure) >= 2 * k) =>
                      RowIs(figure[2 * k].y, FlatOf(last.args.data, "state"),
                            last.args.idx[k])
                /\ AllOnes(FlatOf(last.args.data, "time")) =>
                      printed[k] = [c \in 1..NY |-> 1]
    /\ (last.routine = "plot_time_snaps" /\ last.exc = NoExc) =>
          /\ Len(figure) = 6
          /\ \A k \in 1..3 :
                /\ ColIs(figure[2 * k].x, FlatOf(last.args.data, "x"), 1)
                /\ InRange(last.args.idx[k], NY) =>
                      /\ ColIs(figure[2 * k].y, FlatOf(last.args.data, "state"),
                               last.args.idx[k])
                      /\ AllOnes(FlatOf(last.args.data, "state")) =>
                            figure[2 * k].y = [r \in 1..NX |-> 1]

C6_Witness ==
    /\ last.routine = "plot_time_snaps" /\ last.saved
    /\ last.args.idx = <<NY - 1, 0, 1>>
    /\ ~AllOnes(FlatOf(last.args.data, "state"))
    /\ figure[2].y # figure[4].y

\* C7: a rendering call leaves the data it was given, the module's data
\* sets and the palette as they were; the one thing it may add is the image
\* file of the given name, and only when it saved.
C7_NoMutation ==
    [][(last' # last) =>
          /\ last'.after = last'.args.data
          /\ dicts' = dicts /\ raw' = raw /\ ints' = ints /\ colors' = colors
          /\ files' \subseteq files \cup {last'.args.name}
          /\ (files' # files => last'.saved)]_vars

C7_Witness ==
    /\ last.routine = "plot_time_snaps" /\ last.saved
    /\ files = {OutName}
    /\ last.after = dicts["cni_new"]

\* C8: once the loop of lines 14-16 is over the palette holds 20 triples,
\* each component the original 0..255 value divided by 255 and so within
\* [0, 1], and no later step changes the palette.
C8_Palette ==
    /\ [](pc # 0 =>
            /\ Len(colors) = NumColors
            /\ \A k \in 1..NumColors :
                  /\ DOMAIN colors[k] = 1..3
                  /\ \A c \in 1..3 :
                        /\ colors[k][c].den > 0
                        /\ colors[k][c].num * Denominator
                              = Colors20[k][c] * colors[k][c].den
                        /\ 0 <= colors[k][c].num
                        /\ colors[k][c].num <= colors[k][c].den)
    /\ [][pc # 0 => colors' = colors]_vars

C8_Witness ==
    /\ pc > 0 /\ last.routine = "plot_space_snaps"
    /\ colors[7] = <<Frac(214, 255), Frac(39, 255), Frac(40, 255)>>

\* C10: after the first plot_space_snaps call the run is ended by the
\* undefined name stop of line 228: nothing after it executes, no later
\* file is loaded and at most the first image is written.
C10_StopEndsRun ==
    /\ pc <= FirstCall + 1
    /\ loaded \subseteq {"case1-transport-explicit-euler.dat"}
    /\ files \subseteq {"case1-spacesnap-expeuler.pdf"}
    /\ (last.routine = "plot_space_snaps" /\ exc # NoExc)
          => exc = Exc("NameError", 228)

====
